---- MODULE Spec2Model ----
(***************************************************************************)
(* State-machine model of the DocuFlow frontend component                  *)
(* (frontend/src/App.vue): the reactive state of <script setup>, the two   *)
(* async handlers handleFileUpload and handleQuery split at their await,   *)
(* the file handlers onFileChange / onDrop, and the template's event       *)
(* bindings with the conditions (:disabled, v-if) under which the user can *)
(* trigger them.  The HTTP API behind fetch is the environment: it answers *)
(* a request with any response of a small set, or stops answering.         *)
(*                                                                         *)
(* The ref uploadCategory is left out: no handler assigns it, and it is    *)
(* only read to build the query parameter of the upload URL.               *)
(***************************************************************************)
EXTENDS Naturals, Sequences, FiniteSets, Bags, TLC

\* ---------------------------------------------------------------- bounds
\* Requests that may be awaiting their response at the same time.
MaxInFlight == 2

\* ------------------------------------------------------- values and inputs
\* JavaScript null, as the value of selectedFile.
null == "null"

\* The categories handleQuery falls back to, in the order the code lists them.
AllCategories == <<"Umowy", "Medyczne", "Inne">>

\* <option> elements of the search category multi-select: the element has none.
SearchOptions == <<>>

\* Files the user may pick or drop, and File.type of each.
Files == {"a.pdf", "notes.txt"}

FileType(f) == IF f = "a.pdf" THEN "application/pdf" ELSE "text/plain"

\* A FileList: empty, or holding one file (the handlers read files[0] only).
FileLists == {<<>>} \cup {<<f>> : f \in Files}

\* The questions of the two suggestion chips.
ChipQuestions == {"Jaki jest okres wypowiedzenia?", "Jakie zalecenia medyczne dla Marty Z.?"}

\* Text the user may type into the question input: nothing, or one of the
\* same two questions.
TypedQuestions == {""} \cup ChipQuestions

\* A parsed JSON object is a function from the keys it has to their values;
\* a key it lacks reads as undefined, which is falsy.
Has(data, k) == k \in DOMAIN data

\* JavaScript truthiness of a string property: present and not "".
Truthy(data, k) == Has(data, k) /\ data[k] # ""

\* Bodies the query endpoint may send, as parsed by response.json().
QueryData ==
    {<<>>}
    \cup [answer : {"", "A1"}]
    \cup [source_files : {<<"d2", "d1">>}]
    \cup [detail : {"bad"}]
    \cup [answer : {"", "A1"}, source_files : {<<"d2", "d1">>}]
    \cup [answer : {"A1"}, source_files : {<<"d2", "d1">>}, detail : {"bad"}]

\* Bodies the upload endpoint may send.
UploadData ==
    {<<>>}
    \cup [job_id : {"job-7"}]
    \cup [detail : {"too large"}]
    \cup [job_id : {"job-7"}, detail : {"too large"}]

\* What an awaited fetch followed by response.json() can give: fetch rejects
\* (network error); the body is not JSON (json() rejects); the body is the
\* JSON value null (reading a property of it throws); or the body is an object.
Responses(Data) ==
    {[kind |-> "reject", ok |-> FALSE, data |-> <<>>]}
    \cup [kind : {"invalid", "null"}, ok : BOOLEAN, data : {<<>>}]
    \cup [kind : {"object"}, ok : BOOLEAN, data : Data]

NoResp == [kind |-> "none", ok |-> FALSE, data |-> <<>>]

\* --------------------------------------------------------------- state
VARIABLES
    selectedFile,     \* ref(null): null or the chosen file
    queryQuestion,    \* ref("")
    searchCategory,   \* ref([])
    answer,           \* ref("")
    loading,          \* ref(false)
    sources,          \* ref([])
    uploadStatus,     \* ref("")
    isDragging,       \* ref(false)
    inflight,         \* the bag of requests awaiting their response
    serverUp,         \* environment: FALSE once the server stops answering
    shown,            \* history: which query continuation wrote answer
    last              \* history: the step just taken

vars == <<selectedFile, queryQuestion, searchCategory, answer, loading, sources,
          uploadStatus, isDragging, inflight, serverUp, shown, last>>

\* The refs and the pending requests as a record, to compare a state with
\* the one before a step.
Snapshot ==
    [selectedFile |-> selectedFile, queryQuestion |-> queryQuestion,
     searchCategory |-> searchCategory, answer |-> answer, loading |-> loading,
     sources |-> sources, uploadStatus |-> uploadStatus, isDragging |-> isDragging,
     inflight |-> inflight]

\* The same without uploadStatus, for a step that is to change nothing else.
SnapshotButStatus ==
    [selectedFile |-> selectedFile, queryQuestion |-> queryQuestion,
     searchCategory |-> searchCategory, answer |-> answer, loading |-> loading,
     sources |-> sources, isDragging |-> isDragging, inflight |-> inflight]

NoPre == <<>>

NoReq == <<>>

\* The record of a step: the operation, whether it sent a request, the
\* request sent or answered, the response a continuation got, and (for a
\* step that is to leave refs alone) those refs before the step.
Ev(op, sent, req, resp, pre) ==
    [op |-> op, sent |-> sent, req |-> req, resp |-> resp, pre |-> pre]

\* A binding of the template that only assigns a ref.
UiEv == Ev("ui", FALSE, NoReq, NoResp, NoPre)

NoShown == [by |-> "none", question |-> ""]

Requests == BagToSet(inflight)

QueriesInFlight == {r \in Requests : r.op = "query"}

UploadsInFlight == {r \in Requests : r.op = "upload"}

\* The model's bound on simultaneous requests.
CanSend == BagCardinality(inflight) < MaxInFlight

Send(req) == inflight (+) SetToBag({req})

Receive(req) == inflight (-) SetToBag({req})

Init ==
    /\ selectedFile = null
    /\ queryQuestion = ""
    /\ searchCategory = <<>>
    /\ answer = ""
    /\ loading = FALSE
    /\ sources = <<>>
    /\ uploadStatus = ""
    /\ isDragging = FALSE
    /\ inflight = EmptyBag
    /\ serverUp = TRUE
    /\ shown = NoShown
    /\ last = Ev("init", FALSE, NoReq, NoResp, NoPre)

\* ------------------------------------------------------------ handleQuery
\* if (!queryQuestion.value) return;
QueryGuard(q) == q # ""

\* Mutant: the fallback to all categories is forgotten.
categoriesToSearch_NoFallback(sc) == sc

\* searchCategory.value.length > 0 ? searchCategory.value : [all three]
categoriesToSearch(sc) == IF Len(sc) > 0 THEN sc ELSE AllCategories

\* const payload = { question, categories_to_search }
QueryPayload(q, sc) ==
    [op |-> "query", question |-> q, categories_to_search |-> categoriesToSearch(sc)]

\* answer.value = ""; sources.value = [];
ClearedAnswer == ""

ClearedSources == <<>>

\* handleQuery up to its first await, called when queryQuestion holds q.
handleQuery(q) ==
    IF QueryGuard(q)
    THEN /\ CanSend
         /\ loading' = TRUE
         /\ answer' = ClearedAnswer
         /\ sources' = ClearedSources
         /\ inflight' = Send(QueryPayload(q, searchCategory))
         /\ shown' = NoShown
         /\ last' = Ev("handleQuery", TRUE, QueryPayload(q, searchCategory), NoResp, NoPre)
         /\ UNCHANGED <<isDragging, selectedFile, searchCategory, uploadStatus, serverUp>>
    ELSE /\ last' = Ev("handleQuery", FALSE, NoReq, NoResp, Snapshot)
         /\ UNCHANGED <<isDragging, selectedFile, searchCategory, answer, loading, sources,
                        uploadStatus, inflight, serverUp, shown>>

\* Which branch of try / catch the continuation takes for a response.
Outcome(resp) ==
    IF resp.kind # "object" THEN "catch"
    ELSE IF resp.ok THEN "ok" ELSE "error"

\* answer.value = data.answer || "No response."
QueryOkAnswer(data) == IF Truthy(data, "answer") THEN data.answer ELSE "No response."

\* sources.value = data.source_files || []
QueryOkSources(data) == IF Has(data, "source_files") THEN data.source_files ELSE <<>>

\* answer.value = `Error RAG: ${data.detail || "Unknown error"}`
QueryErrorAnswer(data) ==
    "Error RAG: " \o (IF Truthy(data, "detail") THEN data.detail ELSE "Unknown error")

\* answer.value = "Error connecting to the model."
QueryCatchAnswer == "Error connecting to the model."

\* The sources after the continuation: only the ok branch assigns them.
QuerySourcesAfter(resp, old) ==
    IF Outcome(resp) = "ok" THEN QueryOkSources(resp.data) ELSE old

\* finally { loading.value = false }
LoadingAfterDone == FALSE

\* handleQuery from the await to its end, for request req answered with resp.
QueryResponse(req, resp) ==
    /\ req \in QueriesInFlight
    /\ serverUp
    /\ answer' = (CASE Outcome(resp) = "ok" -> QueryOkAnswer(resp.data)
                    [] Outcome(resp) = "error" -> QueryErrorAnswer(resp.data)
                    [] OTHER -> QueryCatchAnswer)
    /\ sources' = QuerySourcesAfter(resp, sources)
    /\ loading' = LoadingAfterDone
    /\ inflight' = Receive(req)
    /\ shown' = [by |-> Outcome(resp), question |-> req.question]
    /\ last' = Ev("queryDone", FALSE, req, resp, NoPre)
    /\ UNCHANGED <<isDragging, selectedFile, queryQuestion, searchCategory, uploadStatus, serverUp>>

\* ------------------------------------------------- template: query events
\* <input v-model="queryQuestion">: the user edits the question text.
TypeQuestion(q) ==
    /\ queryQuestion' = q
    /\ last' = UiEv
    /\ UNCHANGED <<isDragging, selectedFile, searchCategory, answer, loading, sources,
                   uploadStatus, inflight, serverUp, shown>>

\* @keyup.enter="handleQuery" on the question input.
KeyupEnter ==
    /\ handleQuery(queryQuestion)
    /\ UNCHANGED queryQuestion

\* The send button: @click="handleQuery" :disabled="!queryQuestion || loading".
SendDisabled == queryQuestion = "" \/ loading

ClickSend ==
    /\ ~SendDisabled
    /\ handleQuery(queryQuestion)
    /\ UNCHANGED queryQuestion

\* The empty state, which holds the chips: v-if="!answer && !loading".
ChipsShown == answer = "" /\ ~loading

\* A chip: @click="queryQuestion = '...'; handleQuery()".
ClickChip(q) ==
    /\ ChipsShown
    /\ queryQuestion' = q
    /\ handleQuery(q)

\* What <select multiple v-model> can assign: the values of the selected
\* options, in the order of the options.
Selections(opts) ==
    {sel \in UNION {[1 .. n -> {opts[i] : i \in 1 .. Len(opts)}] : n \in 0 .. Len(opts)} :
        \E pos \in [1 .. Len(sel) -> 1 .. Len(opts)] :
            /\ \A i \in 1 .. Len(sel) : sel[i] = opts[pos[i]]
            /\ \A i, j \in 1 .. Len(sel) : i < j => pos[i] < pos[j]}

\* <select multiple v-model="searchCategory"> with its options.
ChangeSearchCategory(sel) ==
    /\ searchCategory' = sel
    /\ last' = UiEv
    /\ UNCHANGED <<isDragging, selectedFile, queryQuestion, answer, loading, sources,
                   uploadStatus, inflight, serverUp, shown>>

\* ---------------------------------------------------------- file handling
\* const file = e.target.files[0]; if (file) selectedFile.value = file;
onFileChange(files) ==
    /\ selectedFile' = (IF Len(files) > 0 THEN files[1] ELSE selectedFile)
    /\ last' = Ev("onFileChange", Len(files) > 0, NoReq, NoResp, NoPre)
    /\ UNCHANGED <<isDragging, queryQuestion, searchCategory, answer, loading, sources,
                   uploadStatus, inflight, serverUp, shown>>

\* if (file && file.type === "application/pdf")
DropAccepts(files) == Len(files) > 0 /\ FileType(files[1]) = "application/pdf"

OnlyPdfMessage == "Only PDF files are supported."

\* isDragging.value = false; then the file is taken, or the message is set.
onDrop(files) ==
    /\ isDragging' = FALSE
    /\ IF DropAccepts(files)
       THEN /\ selectedFile' = files[1]
            /\ UNCHANGED uploadStatus
            /\ last' = Ev("onDrop", TRUE, NoReq, NoResp, NoPre)
       ELSE /\ uploadStatus' = OnlyPdfMessage
            /\ UNCHANGED selectedFile
            /\ last' = Ev("onDrop", FALSE, NoReq, NoResp, [selectedFile |-> selectedFile])
    /\ UNCHANGED <<queryQuestion, searchCategory, answer, loading, sources,
                   inflight, serverUp, shown>>

\* ------------------------------------------------------- handleFileUpload
\* The emoji that open the status messages, written in ASCII.
WarnMark == "(!) "

OkMark == "(v) "

ErrMark == "(x) "

\* Mutant: the early return for a missing file is dropped.
UploadGuard_Dropped(f) == TRUE

\* if (!selectedFile.value) { uploadStatus.value = "..."; return; }
UploadGuard(f) == f # null

SelectFileMessage == WarnMark \o "Select the file before sending."

\* formData.append("file", selectedFile.value)
UploadPayload(f) == [op |-> "upload", file |-> f]

\* handleFileUpload up to its first await.
handleFileUpload ==
    IF UploadGuard(selectedFile)
    THEN /\ CanSend
         /\ loading' = TRUE
         /\ uploadStatus' = ""
         /\ inflight' = Send(UploadPayload(selectedFile))
         /\ last' = Ev("handleFileUpload", TRUE, UploadPayload(selectedFile), NoResp, NoPre)
         /\ UNCHANGED <<isDragging, selectedFile, queryQuestion, searchCategory, answer, sources,
                        serverUp, shown>>
    ELSE /\ uploadStatus' = SelectFileMessage
         /\ last' = Ev("handleFileUpload", FALSE, NoReq, NoResp, SnapshotButStatus)
         /\ UNCHANGED <<isDragging, selectedFile, queryQuestion, searchCategory, answer, loading,
                        sources, inflight, serverUp, shown>>

\* `${data.job_id}`: a missing property is written as "undefined".
JobIdText(data) == IF Has(data, "job_id") THEN data.job_id ELSE "undefined"

\* uploadStatus.value = `(v) Success! Job ID: ${data.job_id}`
UploadOkStatus(data) == OkMark \o "Success! Job ID: " \o JobIdText(data)

\* uploadStatus.value = `(x) Error: ${data.detail || "Unknown error"}`
UploadErrorStatus(data) ==
    ErrMark \o "Error: " \o (IF Truthy(data, "detail") THEN data.detail ELSE "Unknown error")

\* uploadStatus.value = "(x) Network/API server error."
UploadCatchStatus == ErrMark \o "Network/API server error."

\* Mutant: the reset is moved out of the ok branch.
UploadFileAfter_AlwaysReset(resp, old) == null

\* selectedFile after the continuation: reset to null in the ok branch only.
UploadFileAfter(resp, old) == IF Outcome(resp) = "ok" THEN null ELSE old

\* handleFileUpload from the await to its end, for request req answered with resp.
UploadResponse(req, resp) ==
    /\ req \in UploadsInFlight
    /\ serverUp
    /\ uploadStatus' = (CASE Outcome(resp) = "ok" -> UploadOkStatus(resp.data)
                          [] Outcome(resp) = "error" -> UploadErrorStatus(resp.data)
                          [] OTHER -> UploadCatchStatus)
    /\ selectedFile' = UploadFileAfter(resp, selectedFile)
    /\ loading' = LoadingAfterDone
    /\ inflight' = Receive(req)
    /\ last' = Ev("uploadDone", FALSE, req, resp,
                  IF Outcome(resp) = "ok" THEN NoPre ELSE [selectedFile |-> selectedFile])
    /\ UNCHANGED <<isDragging, queryQuestion, searchCategory, answer, sources, serverUp, shown>>

\* ------------------------------------------------ template: upload events
\* <input type="file" accept=".pdf" @change="onFileChange">: accept only
\* filters what the picker offers; the user may still choose any file, or
\* cancel, which leaves the list empty.
FileInputChange(files) == onFileChange(files)

\* @dragover.prevent="isDragging = true" on the dropzone.
DragOver ==
    /\ isDragging' = TRUE
    /\ last' = UiEv
    /\ UNCHANGED <<selectedFile, queryQuestion, searchCategory, answer, loading,
                   sources, uploadStatus, inflight, serverUp, shown>>

\* @dragleave.prevent="isDragging = false" on the dropzone.
DragLeave ==
    /\ isDragging' = FALSE
    /\ last' = UiEv
    /\ UNCHANGED <<selectedFile, queryQuestion, searchCategory, answer, loading,
                   sources, uploadStatus, inflight, serverUp, shown>>

\* @drop.prevent="onDrop" on the dropzone.
Drop(files) == onDrop(files)

\* The Upload button: @click="handleFileUpload" :disabled="loading || !selectedFile".
UploadDisabled == loading \/ selectedFile = null

ClickUpload == ~UploadDisabled /\ handleFileUpload

\* handleFileUpload called whatever the button's state (a direct call).
CallHandleFileUpload == handleFileUpload

\* String.prototype.includes: t occurs in s as a run of consecutive characters.
Includes(s, t) ==
    \E i \in 1 .. Len(s) + 1 :
        /\ i + Len(t) - 1 <= Len(s)
        /\ SubSeq(s, i, i + Len(t) - 1) = t

\* The status message is in the page: v-if="uploadStatus".
StatusShown == uploadStatus # ""

\* :class="uploadStatus.includes('Sukces') ? 'text-emerald-400' : 'text-rose-400'"
StatusClass(status) ==
    IF Includes(status, "Sukces") THEN "text-emerald-400" ELSE "text-rose-400"

\* ------------------------------------------------------------ environment
\* The server stops answering: the pending fetches, and any later one, stay
\* pending for ever.
ServerStopsAnswering ==
    /\ serverUp
    /\ serverUp' = FALSE
    /\ last' = Ev("silent", FALSE, NoReq, NoResp, NoPre)
    /\ UNCHANGED <<isDragging, selectedFile, queryQuestion, searchCategory, answer, loading,
                   sources, uploadStatus, inflight, shown>>

\* ---------------------------------------------------------- specifications
QueryAnswered == \E req \in QueriesInFlight, resp \in Responses(QueryData) : QueryResponse(req, resp)

UploadAnswered == \E req \in UploadsInFlight, resp \in Responses(UploadData) : UploadResponse(req, resp)

\* The component driven through its template.
Next ==
    \/ \E q \in TypedQuestions : TypeQuestion(q)
    \/ KeyupEnter
    \/ ClickSend
    \/ \E q \in ChipQuestions : ClickChip(q)
    \/ \E sel \in Selections(SearchOptions) : ChangeSearchCategory(sel)
    \/ QueryAnswered
    \/ \E files \in FileLists : FileInputChange(files)
    \/ DragOver
    \/ DragLeave
    \/ \E files \in FileLists : Drop(files)
    \/ ClickUpload
    \/ UploadAnswered
    \/ ServerStopsAnswering

Spec == Init /\ [][Next]_vars

\* The event loop runs a continuation once its response is there, and the
\* server, while it answers at all, answers every request.
FairSpec == Spec /\ WF_vars(QueryAnswered) /\ WF_vars(UploadAnswered)

\* The handlers also called directly, whatever the template allows.
NextDirect == Next \/ CallHandleFileUpload

SpecDirect == Init /\ [][NextDirect]_vars

\* The query path alone, started with any value a three-option filter
\* could have put into searchCategory.
InitAnyFilter ==
    /\ selectedFile = null
    /\ queryQuestion = ""
    /\ searchCategory \in Selections(AllCategories)
    /\ answer = ""
    /\ loading = FALSE
    /\ sources = <<>>
    /\ uploadStatus = ""
    /\ isDragging = FALSE
    /\ inflight = EmptyBag
    /\ serverUp = TRUE
    /\ shown = NoShown
    /\ last = Ev("init", FALSE, NoReq, NoResp, NoPre)

NextQuery ==
    \/ \E q \in TypedQuestions : TypeQuestion(q)
    \/ KeyupEnter
    \/ ClickSend
    \/ \E q \in ChipQuestions : ClickChip(q)
    \/ QueryAnswered

SpecAnyFilter == InitAnyFilter /\ [][NextQuery]_vars
\* ------------------------------------------------------------------ claims
Range(seq) == {seq[i] : i \in 1 .. Len(seq)}

\* A response whose status is OK and whose body parsed to an object, so that
\* the handler reaches its ok branch.
OkResponse(resp) == resp.kind = "object" /\ resp.ok

\* A non-OK response whose body parsed to an object.
ErrorResponse(resp) == resp.kind = "object" /\ ~resp.ok

\* The answer is on screen: v-if="answer && !loading".
AnswerDisplayed == answer # "" /\ ~loading

\* C1: whenever the answer on screen was written by a failed query (the
\* non-OK branch or the catch branch), the sources list is empty.
C1_FailedQueryShowsNoSources ==
    shown.by \in {"error", "catch"} => sources = <<>>

\* C2: the request handleQuery has just sent carries searchCategory when that
\* is non-empty and all three categories when it is empty, and no pending
\* query carries an empty categories_to_search.
C2_EmptySelectionSearchesAll ==
    /\ \A r \in QueriesInFlight : r.categories_to_search # <<>>
    /\ (last.op = "handleQuery" /\ last.sent) =>
          IF searchCategory # <<>>
          THEN last.req.categories_to_search = searchCategory
          ELSE /\ Range(last.req.categories_to_search) = {"Umowy", "Medyczne", "Inne"}
               /\ Len(last.req.categories_to_search) = 3

\* C2 witness: a query was just sent with nothing selected, and it names all
\* three categories.
C2_Witness ==
    /\ last.op = "handleQuery" /\ last.sent
    /\ searchCategory = <<>>
    /\ last.req \in QueriesInFlight
    /\ last.req.categories_to_search = <<"Umowy", "Medyczne", "Inne">>

\* C2, the other case: a query was just sent with only Medyczne selected,
\* and it names only Medyczne.
C2_WitnessRestricted ==
    /\ last.op = "handleQuery" /\ last.sent
    /\ searchCategory = <<"Medyczne">>
    /\ last.req.categories_to_search = <<"Medyczne">>

\* A pending query restricted to a proper subset of the categories.
RestrictedQueryInFlight ==
    \E r \in QueriesInFlight :
        /\ Range(r.categories_to_search) \subseteq {"Umowy", "Medyczne", "Inne"}
        /\ Range(r.categories_to_search) # {"Umowy", "Medyczne", "Inne"}

\* C3: the user of the component gets to a query request whose
\* categories_to_search is a proper subset of the three categories.
C3_RestrictedQueryReached == <>RestrictedQueryInFlight

\* C3, what the component does instead: the filter never holds a value and
\* no request is ever restricted.
C3_NoQueryIsEverRestricted == searchCategory = <<>> /\ ~RestrictedQueryInFlight

\* C4: every pending query carries a non-empty question and every pending
\* upload a file; handleQuery called with an empty question sends nothing
\* and changes nothing; handleFileUpload called with no file sends nothing
\* and changes only uploadStatus, to the warning.
C4_NoRequestWithoutInput ==
    /\ \A r \in QueriesInFlight : r.question # ""
    /\ \A r \in UploadsInFlight : r.file # null
    /\ (last.op = "handleQuery" /\ queryQuestion = "") =>
          /\ ~last.sent
          /\ last.pre = Snapshot
    /\ (last.op = "handleFileUpload" /\ selectedFile = null) =>
          /\ ~last.sent
          /\ last.pre = SnapshotButStatus
          /\ uploadStatus = "(!) Select the file before sending."

\* C4 witness: handleFileUpload was just called with no file selected, while
\* a request was pending and loading was true.
C4_Witness ==
    /\ last.op = "handleFileUpload" /\ ~last.sent
    /\ selectedFile = null
    /\ loading
    /\ inflight # EmptyBag

\* C4, the other handler: handleQuery was just called with an empty question
\* while an answer was on screen.
C4_WitnessQuery ==
    /\ last.op = "handleQuery" /\ ~last.sent
    /\ queryQuestion = ""
    /\ answer # "" /\ sources # <<>>

\* C5: a pending request never waits for ever: whenever loading is true, a
\* step that ends a pending request (its answer, or a timeout treated as a
\* failure) can be taken, also when the server has stopped answering.
C5_PendingRequestCanEnd == loading => ENABLED (QueryAnswered \/ UploadAnswered)

\* C5, as the behaviour it promises: whenever loading is true it is false
\* again later.
C5_LoadingEventuallyFalse == loading ~> ~loading

\* C6: when handleFileUpload's continuation has just run, uploadStatus is
\* not empty; after an OK response it is the success message with the
\* response's job_id and selectedFile is null; after a non-OK response or an
\* exception it is an error message and selectedFile is what it was.
C6_UploadOutcome ==
    last.op = "uploadDone" =>
        /\ uploadStatus # ""
        /\ OkResponse(last.resp) =>
              /\ selectedFile = null
              /\ uploadStatus = "(v) Success! Job ID: " \o
                    (IF Has(last.resp.data, "job_id") THEN last.resp.data.job_id
                     ELSE "undefined")
        /\ ErrorResponse(last.resp) =>
              /\ selectedFile = last.pre.selectedFile
              /\ uploadStatus \in {"(x) Error: Unknown error"} \cup
                    {"(x) Error: " \o d.detail : d \in {x \in UploadData : Has(x, "detail")}}
              /\ Truthy(last.resp.data, "detail") =>
                    uploadStatus = "(x) Error: " \o last.resp.data.detail
        /\ (~OkResponse(last.resp) /\ ~ErrorResponse(last.resp)) =>
              /\ selectedFile = last.pre.selectedFile
              /\ uploadStatus = "(x) Network/API server error."

\* C6 witness: an upload of a.pdf was just answered OK with job-7.
C6_Witness ==
    /\ last.op = "uploadDone"
    /\ OkResponse(last.resp)
    /\ last.req.file = "a.pdf"
    /\ uploadStatus = "(v) Success! Job ID: job-7"
    /\ selectedFile = null

\* C6, the failure case: an upload was just answered non-OK and the file is
\* still selected.
C6_WitnessError ==
    /\ last.op = "uploadDone"
    /\ ErrorResponse(last.resp)
    /\ selectedFile = "a.pdf"
    /\ uploadStatus = "(x) Error: too large"

\* C7: when an answer is on screen and no query is pending, the answer is
\* the response to the question the bubble shows (queryQuestion).
C7_AnswerIsForShownQuestion ==
    (AnswerDisplayed /\ QueriesInFlight = {}) => shown.question = queryQuestion

\* C8: selectedFile is null or a PDF, and a drop that was rejected has left
\* selectedFile as it was.
C8_OnlyPdfSelected ==
    /\ selectedFile = null \/ FileType(selectedFile) = "application/pdf"
    /\ (last.op = "onDrop" /\ ~last.sent) => selectedFile = last.pre.selectedFile

\* C9, first half: right after an OK response with no other query pending,
\* sources and answer are the response's (or [] and "No response.").
C9_OkResponseShown ==
    (last.op = "queryDone" /\ OkResponse(last.resp) /\ QueriesInFlight = {}) =>
        /\ sources = (IF Has(last.resp.data, "source_files")
                      THEN last.resp.data.source_files ELSE <<>>)
        /\ answer = (IF Truthy(last.resp.data, "answer")
                     THEN last.resp.data.answer ELSE "No response.")

\* C9, second half: while a query is pending, answer and sources are cleared.
C9_ClearedWhilePending ==
    QueriesInFlight # {} => (answer = "" /\ sources = <<>>)

\* C9: both halves.
C9_QueryShowsResponse == C9_OkResponseShown /\ C9_ClearedWhilePending

\* C10: loading is true exactly when some request is pending.
C10_LoadingIsAccurate == loading <=> (inflight # EmptyBag)

\* C10, the half that holds: loading is true only while a request is pending.
C10_LoadingImpliesPending == loading => (inflight # EmptyBag)

\* C11: at most one request is pending at any time.
C11_AtMostOneInFlight == BagCardinality(inflight) <= 1

\* C11, as a step: no step taken while loading is true adds a request.
C11_NoStartWhileLoading ==
    [][loading => BagCardinality(inflight') <= BagCardinality(inflight)]_vars

\* C11, the part that holds: a step that adds a request while loading is
\* true is the Enter key in the question input; the two buttons and the
\* chips start nothing then.
C11_OnlyEnterStartsWhileLoading ==
    [][(loading /\ BagCardinality(inflight') > BagCardinality(inflight)) => KeyupEnter]_vars

\* Whether s begins with the text t.
StartsWith(s, t) == Len(t) <= Len(s) /\ SubSeq(s, 1, Len(t)) = t

\* uploadStatus holds the message written after a successful upload.
SuccessMessageHeld == StartsWith(uploadStatus, "(v) Success! Job ID: ")

\* uploadStatus holds one of the warning or error messages: no file selected,
\* a drop that is not a PDF, a non-OK response, an exception.
FailureMessageHeld ==
    \/ uploadStatus = "(!) Select the file before sending."
    \/ uploadStatus = "Only PDF files are supported."
    \/ StartsWith(uploadStatus, "(x) Error: ")
    \/ uploadStatus = "(x) Network/API server error."

\* C12: a status message on the page has the success style when it is the
\* message of a successful upload, and the error style when it is a warning
\* or error message.
C12_StatusStyledByOutcome ==
    StatusShown =>
        /\ SuccessMessageHeld => StatusClass(uploadStatus) = "text-emerald-400"
        /\ FailureMessageHeld => StatusClass(uploadStatus) = "text-rose-400"

\* C12, the half that holds: a warning or error message has the error style.
C12_FailureHasErrorStyle ==
    (StatusShown /\ FailureMessageHeld) => StatusClass(uploadStatus) = "text-rose-400"

\* C12, what the component does instead: every message it writes, the
\* success message included, has the error style.
C12_EveryMessageHasErrorStyle ==
    StatusShown =>
        /\ SuccessMessageHeld \/ FailureMessageHeld
        /\ StatusClass(uploadStatus) = "text-rose-400"
====
